---------------------------- MODULE Spec2Model ----------------------------
(***************************************************************************)
(* Intent triage: the rule-based classifier, the pretrained-model          *)
(* classifier, the orchestrator that arbitrates between them and the       *)
(* escalation policy of src/src/modeling/predict.py, with the              *)
(* configuration of src/src/config.py.                                     *)
(*                                                                         *)
(* Texts are TLA+ strings.  Confidences are percentage points.  The        *)
(* sentiment pipeline's score is counted in twentieths (0..20 stands for   *)
(* 0.00, 0.05, .. 1.00), so that score*100, score*80 and 0.8*confidence    *)
(* are whole numbers of points.                                            *)
(***************************************************************************)
EXTENDS Integers, Sequences, FiniteSets, TLC

VARIABLES
    USE_AI_MODEL,          \* config.USE_AI_MODEL
    CONFIDENCE_THRESHOLD,  \* config.CONFIDENCE_THRESHOLD, after Config._validate
    PORT,                  \* config.PORT, after Config._validate
    classifier_instance,   \* the IntentClassifier in use, or None
    call,                  \* the call just made and what it returned, or NoCall
    first,                 \* an earlier call kept for comparison, or NoCall
    threads                \* where each thread that calls get_classifier stands in it

vars ==
    <<USE_AI_MODEL, CONFIDENCE_THRESHOLD, PORT, classifier_instance, call, first, threads>>

None == "None"
NoCall == <<>>

---------------------------------------------------------------------------
(* Python string operations used by the classifiers.  A Python str is the  *)
(* sequence of its characters; the keyword tables are TLA+ strings.        *)

Min(a, b) == IF a < b THEN a ELSE b
Max(a, b) == IF a > b THEN a ELSE b

\* the characters of a TLA+ string, as a Python str
Chars(s) == [i \in 1..Len(s) |-> SubSeq(s, i, i)]

\* str.isspace for one character
IsSpace(c) == c \in {" ", "\t", "\n", "\r", "\f"}

UpperCase == <<"A", "B", "C", "D", "E", "F", "G", "H", "I", "J", "K", "L", "M",
               "N", "O", "P", "Q", "R", "S", "T", "U", "V", "W", "X", "Y", "Z">>
LowerCase == <<"a", "b", "c", "d", "e", "f", "g", "h", "i", "j", "k", "l", "m",
               "n", "o", "p", "q", "r", "s", "t", "u", "v", "w", "x", "y", "z">>
Digits == {"0", "1", "2", "3", "4", "5", "6", "7", "8", "9"}

\* the regular-expression class \w for one character
IsWordChar(c) ==
    \/ \E i \in DOMAIN UpperCase : c = UpperCase[i] \/ c = LowerCase[i]
    \/ c \in Digits
    \/ c = "_"

LowerChar(c) ==
    IF \E i \in DOMAIN UpperCase : c = UpperCase[i]
    THEN LowerCase[CHOOSE i \in DOMAIN UpperCase : c = UpperCase[i]]
    ELSE c

\* every character of text from position lo to position hi is of the class
AllSpace(text, lo, hi) == \A k \in lo..hi : IsSpace(text[k])
AllWord(text, lo, hi) == \A k \in lo..hi : IsWordChar(text[k])

\* str.lower
lower(text) == [i \in 1..Len(text) |-> LowerChar(text[i])]

\* str.strip: leading and trailing whitespace removed
strip(text) ==
    LET n == Len(text)
    IN  IF \A i \in 1..n : IsSpace(text[i]) THEN <<>>
        ELSE SubSeq(text,
                    CHOOSE i \in 1..n : ~IsSpace(text[i]) /\ AllSpace(text, 1, i - 1),
                    CHOOSE i \in 1..n : ~IsSpace(text[i]) /\ AllSpace(text, i + 1, n))

\* str.split(): the maximal runs of non-whitespace characters, in order
split(text) ==
    LET n == Len(text)
        starts == {i \in 1..n : ~IsSpace(text[i]) /\ (i = 1 \/ IsSpace(text[i - 1]))}
        start(k) == CHOOSE i \in starts : Cardinality({j \in starts : j <= i}) = k
        stop(i) == CHOOSE e \in i..n :
                       /\ \A j \in i..e : ~IsSpace(text[j])
                       /\ e = n \/ IsSpace(text[e + 1])
    IN  [k \in 1..Cardinality(starts) |-> SubSeq(text, start(k), stop(start(k)))]

\* the characters sub occur in text at position i
StartsAt(text, i, sub) ==
    /\ i >= 1
    /\ i + Len(sub) - 1 <= Len(text)
    /\ SubSeq(text, i, i + Len(sub) - 1) = sub

\* Python's "sub in text", for a keyword sub
Contains(sub, text) ==
    \E chars \in {Chars(sub)} :
        \E i \in 1..(Len(text) - Len(sub) + 1) : text[i] = chars[1] /\ StartsAt(text, i, chars)

\* str.startswith
startswith(text, prefix) == StartsAt(text, 1, Chars(prefix))

\* Python's "word in list" for a str and a list of keywords
InList(word, list) ==
    \E k \in DOMAIN list : word = Chars(list[k])

\* the regular-expression assertion \b before the character at position i
WordBoundary(text, i) ==
    LET before == i - 1 >= 1 /\ i - 1 <= Len(text) /\ IsWordChar(text[i - 1])
        after == i >= 1 /\ i <= Len(text) /\ IsWordChar(text[i])
    IN  before # after

\* sum(1 for word in list if word in text)
CountIn(list, text) == Cardinality({i \in DOMAIN list : Contains(list[i], text)})

\* [word for word in list if word in text]
FoundIn(list, text) == SelectSeq(list, LAMBDA word : Contains(word, text))

---------------------------------------------------------------------------
(* The texts submitted: up to MaxPieces pieces of Vocab, joined.           *)

MaxPieces == 3

Vocab == {"Whose", " \t", "?", "!", "love", "I am upset", "not working"}

\* the number of characters of the pieces before piece i
Offset(pieces, i) == Cardinality(UNION {{a} \X (1..Len(pieces[a])) : a \in 1..(i - 1)})

\* "".join(pieces)
Join(pieces) ==
    [j \in 1..Offset(pieces, Len(pieces) + 1) |->
        LET i == CHOOSE i \in DOMAIN pieces :
                     Offset(pieces, i) < j /\ j <= Offset(pieces, i + 1)
        IN  SubSeq(pieces[i], j - Offset(pieces, i), j - Offset(pieces, i))]

Texts == {Join(pieces) : pieces \in UNION {[1..k -> Vocab] : k \in 0..MaxPieces}}

\* the texts of the unit tests of the rule-based classifier and two of their kind,
\* then texts that reach the caps of the three scores
ScenarioTexts ==
    {Chars("How do I reset my password?"),
     Chars("Can you help me with this issue"),
     Chars("This is terrible and never works properly!"),
     Chars("I really love this feature, it's fantastic!"),
     Chars("I updated my profile yesterday."),
     Chars("Why is this service so terrible?"),
     Chars("Good service!"),
     Chars("I think it won't work!"),
     Chars("What was it, and when did whoever had it do so"),
     Chars("Terrible, awful, broken, useless"),
     Chars("It can't use it, it won't work"),
     Chars("Keeps crashing, never works, want a refund!"),
     Chars("Great, excellent, amazing, wonderful"),
     Chars("I think, I believe, in my opinion, great, excellent, amazing, wonderful")}

\* the texts given to the rule-based classifier
RuleTexts == Texts \cup ScenarioTexts

---------------------------------------------------------------------------
(* RuleBasedClassifier                                                     *)

QUESTION_WORDS ==
    <<"what", "when", "where", "who", "whom", "whose", "which", "why", "how",
      "can", "could", "would", "should", "will", "do", "does", "did", "is", "are",
      "was", "were", "have", "has", "had", "may", "might", "must">>

COMPLAINT_WORDS ==
    <<"terrible", "awful", "horrible", "worst", "bad", "broken", "useless",
      "disappointed", "disappointing", "frustrating", "frustrated", "angry",
      "upset", "unacceptable", "poor", "failed", "failure", "never works",
      "doesn't work", "not working", "issue", "problem", "bug", "error",
      "hate", "ridiculous", "pathetic", "disgusted", "waste", "wrong",
      "crash", "crashing", "waiting", "hours", "refund", "unhappy", "quality",
      "worse", "service", "support", "fix", "constantly", "stop">>

POSITIVE_WORDS ==
    <<"great", "good", "excellent", "amazing", "wonderful", "fantastic",
      "awesome", "love", "like", "enjoy", "enjoyed", "helpful", "useful",
      "appreciate", "appreciated", "thanks", "thank you", "perfect",
      "impressed", "happy", "pleased", "nice", "beautiful", "brilliant">>

negative_phrases ==
    <<"not working", "doesn't work", "won't work", "can't use",
      "not satisfied", "very disappointed", "extremely frustrated",
      "keeps crashing", "waiting for", "want a refund", "never works">>

\* the alternatives of the two groups of the first-person emotion pattern
emotion_verbs == {"am", "was", "have been", "'m", "'ve been"}
emotion_words == {"disappointed", "frustrated", "upset", "angry", "unhappy"}

\* re.search(r'\bi\s+(am|was|have been|\'m|\'ve been)\s+\w*\s*(disappointed|...)', text)
emotion_pattern(text) ==
    LET n == Len(text)
    IN  \E i \in 1..n :
          /\ text[i] = "i"
          /\ WordBoundary(text, i)
          /\ \E j \in (i + 1)..n :
               /\ AllSpace(text, i + 1, j)
               /\ \E v \in emotion_verbs :
                    /\ StartsAt(text, j + 1, Chars(v))
                    /\ \E q \in (j + 1 + Len(v))..n :
                         /\ AllSpace(text, j + 1 + Len(v), q)
                         /\ \E r \in q..n :
                              /\ AllWord(text, q + 1, r)
                              /\ \E s \in r..n :
                                   /\ AllSpace(text, r + 1, s)
                                   /\ \E w \in emotion_words : StartsAt(text, s + 1, Chars(w))

statement_patterns ==
    <<"i think", "i believe", "in my opinion", "i feel", "i would say", "just wanted to">>

\* re.search(r'\b<phrase>\b', text)
statement_pattern(phrase, text) ==
    \E i \in 1..Len(text) :
        /\ StartsAt(text, i, Chars(phrase))
        /\ WordBoundary(text, i)
        /\ WordBoundary(text, i + Len(phrase))

\* variant of calculate_question_score: no bonus for a first word of QUESTION_WORDS
question_score_without_start(text) ==
    LET mark == IF Contains("?", text) THEN 40 ELSE 0
        question_word_count == CountIn(QUESTION_WORDS, text)
    IN  Min(mark + Min(question_word_count * 5, 30), 100)

\* variant of calculate_question_score: the count of question words not capped at 30
question_score_uncapped_words(text) ==
    LET words == split(text)
        mark == IF Contains("?", text) THEN 40 ELSE 0
        start == IF Len(words) > 0 /\ InList(words[1], QUESTION_WORDS) THEN 30 ELSE 0
        question_word_count == CountIn(QUESTION_WORDS, text)
    IN  Min(mark + start + question_word_count * 5, 100)

calculate_question_score(text) ==
    LET words == split(text)
        mark == IF Contains("?", text) THEN 40 ELSE 0
        start == IF Len(words) > 0 /\ InList(words[1], QUESTION_WORDS) THEN 30 ELSE 0
        question_word_count == CountIn(QUESTION_WORDS, text)
    IN  Min(mark + start + Min(question_word_count * 5, 30), 100)

\* variant of calculate_complaint_score: the final min(score, 100.0) left out
UnclampedComplaintScore(text) ==
    LET complaint_count == CountIn(COMPLAINT_WORDS, text)
        phrases == 25 * CountIn(negative_phrases, text)
        exclaim == IF Contains("!", text) THEN 15 ELSE 0
        emotion == IF emotion_pattern(text) THEN 25 ELSE 0
    IN  Min(complaint_count * 20, 70) + phrases + exclaim + emotion

\* variant of calculate_complaint_score: the negative phrases capped at 25 points
complaint_score_phrases_capped(text) ==
    LET complaint_count == CountIn(COMPLAINT_WORDS, text)
        phrases == Min(25 * CountIn(negative_phrases, text), 25)
        exclaim == IF Contains("!", text) THEN 15 ELSE 0
        emotion == IF emotion_pattern(text) THEN 25 ELSE 0
    IN  Min(Min(complaint_count * 20, 70) + phrases + exclaim + emotion, 100)

calculate_complaint_score(text) ==
    LET complaint_count == CountIn(COMPLAINT_WORDS, text)
        phrases == 25 * CountIn(negative_phrases, text)
        exclaim == IF Contains("!", text) THEN 15 ELSE 0
        emotion == IF emotion_pattern(text) THEN 25 ELSE 0
    IN  Min(Min(complaint_count * 20, 70) + phrases + exclaim + emotion, 100)

\* variant of calculate_comment_score: 5 points for a positive word
comment_score_5_a_word(text) ==
    LET positive_count == CountIn(POSITIVE_WORDS, text)
        plain == IF ~Contains("?", text) /\ ~Contains("!", text) THEN 10 ELSE 0
        opinions == 10 * Cardinality({k \in DOMAIN statement_patterns :
                                        statement_pattern(statement_patterns[k], text)})
    IN  Min(30 + Min(positive_count * 5, 50) + plain + opinions, 100)

\* variant of calculate_comment_score: the positive words not capped at 50
comment_score_uncapped_words(text) ==
    LET positive_count == CountIn(POSITIVE_WORDS, text)
        plain == IF ~Contains("?", text) /\ ~Contains("!", text) THEN 10 ELSE 0
        opinions == 10 * Cardinality({k \in DOMAIN statement_patterns :
                                        statement_pattern(statement_patterns[k], text)})
    IN  Min(30 + positive_count * 15 + plain + opinions, 100)

\* variant of calculate_comment_score: no points for a text without '?' and '!'
comment_score_without_plain(text) ==
    LET positive_count == CountIn(POSITIVE_WORDS, text)
        opinions == 10 * Cardinality({k \in DOMAIN statement_patterns :
                                        statement_pattern(statement_patterns[k], text)})
    IN  Min(30 + Min(positive_count * 15, 50) + opinions, 100)

\* variant of calculate_comment_score: a base score of 20
comment_score_base_20(text) ==
    LET positive_count == CountIn(POSITIVE_WORDS, text)
        plain == IF ~Contains("?", text) /\ ~Contains("!", text) THEN 10 ELSE 0
        opinions == 10 * Cardinality({k \in DOMAIN statement_patterns :
                                        statement_pattern(statement_patterns[k], text)})
    IN  Min(20 + Min(positive_count * 15, 50) + plain + opinions, 100)

calculate_comment_score(text) ==
    LET positive_count == CountIn(POSITIVE_WORDS, text)
        plain == IF ~Contains("?", text) /\ ~Contains("!", text) THEN 10 ELSE 0
        opinions == 10 * Cardinality({k \in DOMAIN statement_patterns :
                                        statement_pattern(statement_patterns[k], text)})
    IN  Min(30 + Min(positive_count * 15, 50) + plain + opinions, 100)

\* variant of generate_reason: the last keyword found is cited
generate_reason_last_found(label, text) ==
    IF label = "question"
    THEN IF Contains("?", text)
         THEN "Contains question mark and interrogative structure"
         ELSE "Contains question words seeking information"
    ELSE IF label = "complaint"
    THEN LET complaint_found == FoundIn(COMPLAINT_WORDS, text)
         IN  IF Len(complaint_found) > 0
             THEN "Contains negative language indicating dissatisfaction ('"
                      \o complaint_found[Len(complaint_found)] \o "')"
             ELSE "Expresses frustration or problem with service"
    ELSE LET positive_found == FoundIn(POSITIVE_WORDS, text)
         IN  IF Len(positive_found) > 0
             THEN "Appears to be feedback or observation ('"
                      \o positive_found[Len(positive_found)] \o "')"
             ELSE "Declarative statement providing feedback or opinion"

generate_reason(label, text) ==
    IF label = "question"
    THEN IF Contains("?", text)
         THEN "Contains question mark and interrogative structure"
         ELSE "Contains question words seeking information"
    ELSE IF label = "complaint"
    THEN LET complaint_found == FoundIn(COMPLAINT_WORDS, text)
         IN  IF Len(complaint_found) > 0
             THEN "Contains negative language indicating dissatisfaction ('"
                      \o complaint_found[1] \o "')"
             ELSE "Expresses frustration or problem with service"
    ELSE LET positive_found == FoundIn(POSITIVE_WORDS, text)
         IN  IF Len(positive_found) > 0
             THEN "Appears to be feedback or observation ('" \o positive_found[1] \o "')"
             ELSE "Declarative statement providing feedback or opinion"

\* variant of max_label: the last key with the greatest score
max_label_last(question_score, complaint_score, comment_score) ==
    IF comment_score >= question_score /\ comment_score >= complaint_score THEN "comment"
    ELSE IF complaint_score >= question_score THEN "complaint"
    ELSE "question"

\* max(scores.keys(), key=...) over the dict's order question, complaint, comment:
\* the first key with the greatest score
max_label(question_score, complaint_score, comment_score) ==
    IF question_score >= complaint_score /\ question_score >= comment_score THEN "question"
    ELSE IF complaint_score >= comment_score THEN "complaint"
    ELSE "comment"

\* the dict "scores" of RuleBasedClassifier.classify, for the lower-cased, stripped text
RuleBasedClassifier_scores(text_lower) ==
    [question |-> calculate_question_score(text_lower),
     complaint |-> calculate_complaint_score(text_lower),
     comment |-> calculate_comment_score(text_lower)]

\* RuleBasedClassifier.classify; scores is not returned by the code, it is kept to
\* state the properties of the scoring
RuleBasedClassifier_classify(text) ==
    LET text_lower == strip(lower(text))
    IN  CHOOSE result \in
            {[label |-> label, confidence |-> scores[label],
              reason |-> generate_reason(label, text_lower), scores |-> scores] :
                 <<scores, label>> \in
                     {<<s, max_label(s.question, s.complaint, s.comment)>> :
                          s \in {RuleBasedClassifier_scores(text_lower)}}} : TRUE

\* the RuleBasedClassifier held by the orchestrator, as the function it computes
rule_based_classifier == [text \in RuleTexts |-> RuleBasedClassifier_classify(text)]

---------------------------------------------------------------------------
(* AIClassifier                                                            *)

\* what loading the sentiment pipeline can do in AIClassifier._initialize_model
LoadOutcomes == {"loaded", "ImportError", "Exception"}

\* self.sentiment_pipeline after _initialize_model
initialize_model(load) == IF load = "loaded" THEN "pipeline" ELSE None

is_available(sentiment_pipeline) == sentiment_pipeline # None

\* the labels of distilbert-base-uncased-finetuned-sst-2-english, and one that is
\* neither, for the branch "else:  # POSITIVE or NEUTRAL"
SentimentLabels == {"NEGATIVE", "POSITIVE", "NEUTRAL"}

\* the pipeline's scores tried, in twentieths: 0.00, 0.50, 0.75, 0.80, 0.85, 0.95, 1.00
Scores == {0, 10, 15, 16, 17, 19, 20}

\* what one call of the sentiment pipeline can do: raise, or return a label and a score
PipelineOutcomes ==
    {[raises |-> TRUE, label |-> None, score |-> 0]}
        \cup [raises : {FALSE}, label : SentimentLabels, score : Scores]

\* the pipeline was not called
NotInvoked == [raises |-> FALSE, label |-> None, score |-> 0]

\* f"{sentiment_score:.2f}"
ScoreText ==
    <<"0.00", "0.05", "0.10", "0.15", "0.20", "0.25", "0.30", "0.35", "0.40", "0.45", "0.50",
      "0.55", "0.60", "0.65", "0.70", "0.75", "0.80", "0.85", "0.90", "0.95", "1.00">>

format_score(score) == ScoreText[score + 1]

question_words ==
    <<"what", "when", "where", "who", "whom", "whose", "which",
      "why", "how", "can", "could", "would", "should", "will",
      "do", "does", "did", "is", "are", "was", "were">>

complaint_indicators ==
    <<"problem", "issue", "broken", "doesn't work", "not working",
      "terrible", "awful", "bad", "worst", "frustrated", "disappointed",
      "hate", "horrible", "useless", "never works", "keeps crashing",
      "want a refund", "unacceptable", "angry", "upset">>

positive_words ==
    <<"great", "good", "love", "excellent", "amazing", "thanks",
      "appreciate", "awesome", "fantastic", "wonderful">>

\* variant of has_question_mark: text.endswith('?')
ends_with_question_mark(text) == Len(text) > 0 /\ text[Len(text)] = "?"

\* "if '?' in text"
has_question_mark(text) == Contains("?", text)

\* what AIClassifier.classify reads off the text itself
text_signals(text) ==
    LET text_lower == strip(lower(text))
    IN  [question_mark |-> has_question_mark(text),
         question_start |-> \E k \in DOMAIN question_words :
                                startswith(text_lower, question_words[k] \o " "),
         has_complaint_words |-> \E k \in DOMAIN complaint_indicators :
                                     Contains(complaint_indicators[k], text_lower),
         has_positive |-> \E k \in DOMAIN positive_words :
                              Contains(positive_words[k], text_lower)]

signals == [text \in Texts |-> text_signals(text)]

\* "raise Exception(...)": both raise statements of AIClassifier.classify
AIRaise(pipeline_called) ==
    [raised |-> TRUE, exception |-> "Exception", label |-> None, confidence |-> 0,
     reason |-> None, pipeline_called |-> pipeline_called]

AIReturn(label, confidence, reason, pipeline_called) ==
    [raised |-> FALSE, exception |-> None, label |-> label, confidence |-> confidence,
     reason |-> reason, pipeline_called |-> pipeline_called]

\* variant of negative_sentiment: "sentiment_score >= 0.8"
negative_sentiment_from_080(has_complaint_words, sentiment_score) ==
    IF has_complaint_words \/ sentiment_score >= 16
    THEN AIReturn("complaint", Min(sentiment_score * 5, 95),
                  "Negative sentiment with complaint indicators (model confidence: "
                      \o format_score(sentiment_score) \o ")", TRUE)
    ELSE AIReturn("complaint", Min(sentiment_score * 4, 75),
                  "Negative sentiment detected (model confidence: "
                      \o format_score(sentiment_score) \o ")", TRUE)

\* variant of negative_sentiment: the weaker branch scales the score by 100 too
negative_sentiment_scaled_100(has_complaint_words, sentiment_score) ==
    IF has_complaint_words \/ sentiment_score > 16
    THEN AIReturn("complaint", Min(sentiment_score * 5, 95),
                  "Negative sentiment with complaint indicators (model confidence: "
                      \o format_score(sentiment_score) \o ")", TRUE)
    ELSE AIReturn("complaint", Min(sentiment_score * 5, 75),
                  "Negative sentiment detected (model confidence: "
                      \o format_score(sentiment_score) \o ")", TRUE)

\* the NEGATIVE branch
negative_sentiment(has_complaint_words, sentiment_score) ==
    IF has_complaint_words \/ sentiment_score > 16
    THEN AIReturn("complaint", Min(sentiment_score * 5, 95),
                  "Negative sentiment with complaint indicators (model confidence: "
                      \o format_score(sentiment_score) \o ")", TRUE)
    ELSE AIReturn("complaint", Min(sentiment_score * 4, 75),
                  "Negative sentiment detected (model confidence: "
                      \o format_score(sentiment_score) \o ")", TRUE)

\* variant of positive_sentiment: the neutral confidence adds 60 where the code takes
\* the larger of the two
positive_sentiment_sum(has_positive, sentiment_score) ==
    LET confidence == Min(sentiment_score * 5, 95)
    IN  IF has_positive
        THEN AIReturn("comment", confidence,
                      "Positive sentiment detected (model confidence: "
                          \o format_score(sentiment_score) \o ")", TRUE)
        ELSE AIReturn("comment", (confidence * 8) \div 10 + 60,
                      "Neutral observation or feedback (model confidence: "
                          \o format_score(sentiment_score) \o ")", TRUE)

\* variant of positive_sentiment: the neutral confidence is max(score * 80, 60)
positive_sentiment_uncapped(has_positive, sentiment_score) ==
    IF has_positive
    THEN AIReturn("comment", Min(sentiment_score * 5, 95),
                  "Positive sentiment detected (model confidence: "
                      \o format_score(sentiment_score) \o ")", TRUE)
    ELSE AIReturn("comment", Max(sentiment_score * 4, 60),
                  "Neutral observation or feedback (model confidence: "
                      \o format_score(sentiment_score) \o ")", TRUE)

\* the POSITIVE or NEUTRAL branch
positive_sentiment(has_positive, sentiment_score) ==
    LET confidence == Min(sentiment_score * 5, 95)
    IN  IF has_positive
        THEN AIReturn("comment", confidence,
                      "Positive sentiment detected (model confidence: "
                          \o format_score(sentiment_score) \o ")", TRUE)
        ELSE AIReturn("comment", Max((confidence * 8) \div 10, 60),
                      "Neutral observation or feedback (model confidence: "
                          \o format_score(sentiment_score) \o ")", TRUE)

\* variant of AIClassifier.classify: the pipeline is called before the test of the
\* first word
AIClassifier_pipeline_first(sentiment_pipeline, text, outcome) ==
    IF ~is_available(sentiment_pipeline) THEN AIRaise(FALSE)
    ELSE IF signals[text].question_mark
    THEN AIReturn("question", 85, "Contains question mark and interrogative structure", FALSE)
    ELSE IF outcome.raises THEN AIRaise(TRUE)
    ELSE IF signals[text].question_start
    THEN AIReturn("question", 80, "Starts with interrogative word seeking information", TRUE)
    ELSE IF outcome.label = "NEGATIVE"
    THEN negative_sentiment(signals[text].has_complaint_words, outcome.score)
    ELSE positive_sentiment(signals[text].has_positive, outcome.score)

\* variant of AIClassifier.classify: the question mark is tested before the
\* availability of the model
AIClassifier_question_first(sentiment_pipeline, text, outcome) ==
    IF signals[text].question_mark
    THEN AIReturn("question", 85, "Contains question mark and interrogative structure", FALSE)
    ELSE IF ~is_available(sentiment_pipeline) THEN AIRaise(FALSE)
    ELSE IF signals[text].question_start
    THEN AIReturn("question", 80, "Starts with interrogative word seeking information", FALSE)
    ELSE IF outcome.raises THEN AIRaise(TRUE)
    ELSE IF outcome.label = "NEGATIVE"
    THEN negative_sentiment(signals[text].has_complaint_words, outcome.score)
    ELSE positive_sentiment(signals[text].has_positive, outcome.score)

\* AIClassifier.classify; outcome is what the pipeline does if it is called
AIClassifier_classify(sentiment_pipeline, text, outcome) ==
    IF ~is_available(sentiment_pipeline) THEN AIRaise(FALSE)
    ELSE IF signals[text].question_mark
    THEN AIReturn("question", 85, "Contains question mark and interrogative structure", FALSE)
    ELSE IF signals[text].question_start
    THEN AIReturn("question", 80, "Starts with interrogative word seeking information", FALSE)
    ELSE IF outcome.raises THEN AIRaise(TRUE)
    ELSE IF outcome.label = "NEGATIVE"
    THEN negative_sentiment(signals[text].has_complaint_words, outcome.score)
    ELSE positive_sentiment(signals[text].has_positive, outcome.score)

---------------------------------------------------------------------------
(* IntentClassifier                                                        *)

\* variant of is_blank: "not text" alone
is_empty(text) == Len(text) = 0

\* "not text or not text.strip()"
is_blank(text) == Len(text) = 0 \/ Len(strip(text)) = 0

\* variant of attempt_ai: "or" in the place of "and"
attempt_ai_either(use_ai_model, sentiment_pipeline) ==
    use_ai_model \/ is_available(sentiment_pipeline)

\* "if config.USE_AI_MODEL and self.ai_classifier.is_available()"
attempt_ai(use_ai_model, sentiment_pipeline) == use_ai_model /\ is_available(sentiment_pipeline)

\* variant of handler_catches: "except ImportError"
handler_catches_ImportError(exception) == exception = "ImportError"

\* "except Exception as e": the exception classes the handler catches
handler_catches(exception) == exception = "Exception"

\* the fall-back to rule-based classification
fall_back(text, attempted) ==
    LET rules == rule_based_classifier[text]
    IN  [label |-> rules.label, confidence |-> rules.confidence, reason |-> rules.reason,
         used_ai |-> FALSE, raised |-> FALSE, ai_called |-> attempted, ai_raised |-> attempted,
         pipeline_called |-> FALSE, rules_called |-> TRUE]

\* IntentClassifier.classify: what it returns (or that it raised), with a record of the
\* classifiers it called
IntentClassifier_classify(sentiment_pipeline, use_ai_model, text, outcome) ==
    LET attempt == attempt_ai(use_ai_model, sentiment_pipeline)
        ai == AIClassifier_classify(sentiment_pipeline, text, outcome)
    IN  IF is_blank(text)
        THEN [label |-> "comment", confidence |-> 30, reason |-> "Empty or invalid input",
              used_ai |-> FALSE, raised |-> FALSE, ai_called |-> FALSE, ai_raised |-> FALSE,
              pipeline_called |-> FALSE, rules_called |-> FALSE]
        ELSE IF ~attempt THEN fall_back(text, FALSE)
        ELSE IF ~ai.raised
        THEN [label |-> ai.label, confidence |-> ai.confidence, reason |-> ai.reason,
              used_ai |-> TRUE, raised |-> FALSE, ai_called |-> TRUE, ai_raised |-> FALSE,
              pipeline_called |-> ai.pipeline_called, rules_called |-> FALSE]
        ELSE IF handler_catches(ai.exception)
        THEN [fall_back(text, TRUE) EXCEPT !.pipeline_called = ai.pipeline_called]
        ELSE [label |-> None, confidence |-> 0, reason |-> None,
              used_ai |-> FALSE, raised |-> TRUE, ai_called |-> TRUE, ai_raised |-> TRUE,
              pipeline_called |-> ai.pipeline_called, rules_called |-> FALSE]

\* variant of escalation: "<=" in the place of "<"
escalation_le(confidence, threshold) == confidence <= threshold

\* "escalate = confidence < config.CONFIDENCE_THRESHOLD"
escalation(confidence, threshold) == confidence < threshold

\* variant of method_of: the method tells whether a model is loaded at all
method_of_loaded(used_ai) == "ai"

\* "'ai' if used_ai else 'rules'"
method_of(used_ai) == IF used_ai THEN "ai" ELSE "rules"

\* IntentClassifier.classify_with_escalation, from what self.classify(text) returned:
\* the dictionary returned
classify_with_escalation(c, threshold) ==
    [raised |-> c.raised, label |-> c.label, confidence |-> c.confidence, reason |-> c.reason,
     escalate |-> escalation(c.confidence, threshold), method |-> method_of(c.used_ai)]

\* variant of pipeline_after_classify: a failed classification drops the pipeline
pipeline_dropped_on_failure(sentiment_pipeline, ai_raised) ==
    IF ai_raised THEN None ELSE sentiment_pipeline

\* variant of pipeline_after_classify: a classify call loads a missing pipeline
pipeline_loaded_lazily(sentiment_pipeline, ai_raised) ==
    IF sentiment_pipeline = None THEN "pipeline" ELSE sentiment_pipeline

\* self.sentiment_pipeline after a classify call: no classify assigns it
pipeline_after_classify(sentiment_pipeline, ai_raised) == sentiment_pipeline

---------------------------------------------------------------------------
(* Config                                                                  *)

INTENT_LABELS == {"question", "comment", "complaint"}

\* the values CONFIDENCE_THRESHOLD is given in the environment
EnvThresholds == {-1, 0, 30, 70, 85, 100, 101}

\* Config._validate, the threshold
validate_threshold(threshold) == IF ~(0 <= threshold /\ threshold <= 100) THEN 70 ELSE threshold

\* "int(os.getenv("PORT", 8000))" when the environment does not set PORT
DefaultPort == 8000

\* the values PORT is given in the environment
EnvPorts == {0, 1, DefaultPort, 65535, 65536}

\* variant of validate_port: the lower end of the range at 0
validate_port_from_0(port) == IF ~(0 <= port /\ port <= 65535) THEN 8000 ELSE port

\* Config._validate, the port
validate_port(port) == IF ~(1 <= port /\ port <= 65535) THEN 8000 ELSE port

---------------------------------------------------------------------------
(* The request and response models and the HTTP handlers                   *)

\* variant of ClassificationRequest_valid: no least length
ClassificationRequest_any(text) == Len(text) >= 0

\* ClassificationRequest: "text: str = Field(min_length=1, ...)"
ClassificationRequest_valid(text) == Len(text) >= 1

\* ClassificationResponse: the label is one of the three literals, the confidence
\* has ge=0 and le=100
ClassificationResponse_valid(response) ==
    /\ response.label \in {"question", "comment", "complaint"}
    /\ 0 <= response.confidence
    /\ response.confidence <= 100

\* "__version__"
version == "1.0.0"

\* classify_text, once the request has passed validation: the response built from
\* the result of classify_with_escalation
classify_text(result) ==
    [label |-> result.label, confidence |-> result.confidence,
     reason |-> result.reason, escalate |-> result.escalate]

\* health_check: the response for the classifier get_classifier returned
health_check(classifier) ==
    [status |-> "healthy", version |-> version,
     ai_model_available |-> is_available(classifier.sentiment_pipeline)]

---------------------------------------------------------------------------
(* The state machine                                                       *)

NoInstance == <<>>

\* the threads that call get_classifier at the same time
NumThreads == 2
Threads == 1..NumThreads

\* a thread that has not called get_classifier yet: at is its position, made the
\* object it constructed, result the identity of the object returned to it
NotCalled == [at |-> "not called", made |-> NoInstance, result |-> 0]

Init ==
    /\ USE_AI_MODEL \in BOOLEAN
    /\ \E env \in EnvThresholds : CONFIDENCE_THRESHOLD = validate_threshold(env)
    /\ PORT = validate_port(DefaultPort)
    /\ classifier_instance = NoInstance
    /\ call = NoCall
    /\ first = NoCall
    /\ threads = [t \in Threads |-> NotCalled]

\* IntentClassifier(): AIClassifier.__init__ loads the pipeline, or fails to; id tells
\* the objects constructed apart (the first is 1, the next 2, ...)
IntentClassifier_init(load, id) ==
    [sentiment_pipeline |-> initialize_model(load), load |-> load, id |-> id]

\* the identity of the object a construction makes when instance is the global one
fresh_id(instance) == IF instance = NoInstance THEN 1 ELSE instance[1].id + 1

\* variant of get_classifier: the test of the global instance left out
get_classifier_anew(instance, load) ==
    <<IntentClassifier_init(load, fresh_id(instance))>>

\* get_classifier: the value of _classifier_instance when it returns, which is also
\* the object returned
get_classifier(instance, load) ==
    IF instance = NoInstance
    THEN <<IntentClassifier_init(load, fresh_id(instance))>>
    ELSE instance

\* the first get_classifier() of the service
Construct(load) ==
    /\ classifier_instance = NoInstance
    /\ classifier_instance' = get_classifier(classifier_instance, load)
    /\ UNCHANGED <<USE_AI_MODEL, CONFIDENCE_THRESHOLD, PORT, call, first, threads>>

\* the outcomes the pipeline can have during a call on text: it is deterministic, so
\* it repeats on the text of the remembered call what it did there
OutcomesFor(text) ==
    IF first # NoCall /\ first[1].text = text /\ first[1].trace.pipeline_called
    THEN {first[1].outcome}
    ELSE PipelineOutcomes

\* one call classifier.classify_with_escalation(text), for a text of the set given; the
\* pipeline's outcome is chosen when the call reaches the pipeline
ClassifyWithEscalation(texts) ==
    /\ classifier_instance # NoInstance
    /\ call = NoCall
    /\ LET self == classifier_instance[1]
       IN  \E text \in texts :
           \E dry \in {IntentClassifier_classify(self.sentiment_pipeline, USE_AI_MODEL,
                                                 text, NotInvoked)} :
           \E outcome \in IF dry.pipeline_called THEN OutcomesFor(text) ELSE {NotInvoked} :
           \E c \in {IF dry.pipeline_called
                     THEN IntentClassifier_classify(self.sentiment_pipeline, USE_AI_MODEL,
                                                    text, outcome)
                     ELSE dry} :
               /\ call' = <<[op |-> "classify_with_escalation", text |-> text,
                             outcome |-> outcome, trace |-> c,
                             result |-> classify_with_escalation(c, CONFIDENCE_THRESHOLD)]>>
               /\ classifier_instance' =
                      <<[self EXCEPT !.sentiment_pipeline =
                             pipeline_after_classify(self.sentiment_pipeline, c.ai_raised)]>>
               /\ first' = IF first # NoCall /\ first[1].text # text
                           THEN <<[first[1] EXCEPT !.between = TRUE]>>
                           ELSE first
    /\ UNCHANGED <<USE_AI_MODEL, CONFIDENCE_THRESHOLD, PORT, threads>>

\* one call RuleBasedClassifier().classify(text), as the unit tests make it
DirectRuleClassify(texts) ==
    /\ call = NoCall
    /\ \E text \in texts :
         call' = <<[op |-> "RuleBasedClassifier.classify", text |-> text,
                    result |-> rule_based_classifier[text]]>>
    /\ UNCHANGED <<USE_AI_MODEL, CONFIDENCE_THRESHOLD, PORT, classifier_instance, first,
                   threads>>

\* one call classifier.ai_classifier.classify(text), made without the orchestrator, for
\* a text of the set given; the pipeline's outcome is chosen when the call reaches it
DirectAIClassify(texts) ==
    /\ classifier_instance # NoInstance
    /\ call = NoCall
    /\ LET self == classifier_instance[1]
       IN  \E text \in texts :
           \E dry \in {AIClassifier_classify(self.sentiment_pipeline, text, NotInvoked)} :
           \E outcome \in IF dry.pipeline_called THEN PipelineOutcomes ELSE {NotInvoked} :
               call' = <<[op |-> "AIClassifier.classify", text |-> text, outcome |-> outcome,
                          result |-> AIClassifier_classify(self.sentiment_pipeline, text,
                                                           outcome)]>>
    /\ UNCHANGED <<USE_AI_MODEL, CONFIDENCE_THRESHOLD, PORT, classifier_instance, first,
                   threads>>

\* one call get_classifier(), run to its end; load is what loading the pipeline does
\* if this call constructs the classifier
GetClassifier(load) ==
    /\ call = NoCall
    /\ classifier_instance' = get_classifier(classifier_instance, load)
    /\ call' = <<[op |-> "get_classifier",
                  constructed |-> classifier_instance' # classifier_instance,
                  result |-> classifier_instance'[1].id]>>
    /\ UNCHANGED <<USE_AI_MODEL, CONFIDENCE_THRESHOLD, PORT, first, threads>>

\* get_classifier step by step, as a thread runs it beside other threads.  The test
\* "if _classifier_instance is None" reads the global: the thread goes on to construct
\* or to return
ThreadTest(t) ==
    /\ threads[t].at = "not called"
    /\ threads' = [threads EXCEPT ![t].at =
                       IF classifier_instance = NoInstance THEN "construct" ELSE "return"]
    /\ UNCHANGED <<USE_AI_MODEL, CONFIDENCE_THRESHOLD, PORT, classifier_instance, call, first>>

\* the objects constructed so far
Constructed == {threads[t].made : t \in Threads} \ {NoInstance}

\* "IntentClassifier()", the right-hand side of the assignment: the pipeline is loaded
ThreadConstruct(t, load) ==
    /\ threads[t].at = "construct"
    /\ threads' = [threads EXCEPT
                       ![t].at = "assign",
                       ![t].made = <<IntentClassifier_init(load, Cardinality(Constructed) + 1)>>]
    /\ UNCHANGED <<USE_AI_MODEL, CONFIDENCE_THRESHOLD, PORT, classifier_instance, call, first>>

\* "_classifier_instance = ...": the object is stored in the global
ThreadAssign(t) ==
    /\ threads[t].at = "assign"
    /\ classifier_instance' = threads[t].made
    /\ threads' = [threads EXCEPT ![t].at = "return"]
    /\ UNCHANGED <<USE_AI_MODEL, CONFIDENCE_THRESHOLD, PORT, call, first>>

\* "return _classifier_instance": the global is read again
ThreadReturn(t) ==
    /\ threads[t].at = "return"
    /\ threads' = [threads EXCEPT ![t].at = "returned",
                                  ![t].result = classifier_instance[1].id]
    /\ UNCHANGED <<USE_AI_MODEL, CONFIDENCE_THRESHOLD, PORT, classifier_instance, call, first>>

\* what loading the pipeline can do in a get_classifier call on the instance
LoadsFor(instance) == IF instance = NoInstance THEN LoadOutcomes ELSE {instance[1].load}

\* one request POST /classify with a text of the set given as its body's text: it is
\* answered 422 by request validation, or handled by classify_text
PostClassify(texts) ==
    /\ call = NoCall
    /\ \E text \in texts :
         IF ~ClassificationRequest_valid(text)
         THEN /\ call' = <<[op |-> "POST /classify", text |-> text, status |-> 422,
                            invoked |-> FALSE]>>
              /\ UNCHANGED classifier_instance
         ELSE \E load \in LoadsFor(classifier_instance) :
              \E self \in {get_classifier(classifier_instance, load)[1]} :
              \E dry \in {IntentClassifier_classify(self.sentiment_pipeline, USE_AI_MODEL,
                                                    text, NotInvoked)} :
              \E outcome \in IF dry.pipeline_called THEN OutcomesFor(text) ELSE {NotInvoked} :
              \E c \in {IF dry.pipeline_called
                        THEN IntentClassifier_classify(self.sentiment_pipeline, USE_AI_MODEL,
                                                       text, outcome)
                        ELSE dry} :
              \E result \in {classify_with_escalation(c, CONFIDENCE_THRESHOLD)} :
                  /\ call' = <<[op |-> "POST /classify", text |-> text,
                                status |-> IF ~result.raised
                                                /\ ClassificationResponse_valid(classify_text(result))
                                           THEN 200 ELSE 500,
                                invoked |-> TRUE, outcome |-> outcome, trace |-> c,
                                result |-> result, response |-> classify_text(result)]>>
                  /\ classifier_instance' =
                         <<[self EXCEPT !.sentiment_pipeline =
                                pipeline_after_classify(self.sentiment_pipeline, c.ai_raised)]>>
    /\ UNCHANGED <<USE_AI_MODEL, CONFIDENCE_THRESHOLD, PORT, first, threads>>

\* one request GET /health
HealthCheck ==
    /\ call = NoCall
    /\ \E load \in LoadsFor(classifier_instance) :
         /\ classifier_instance' = get_classifier(classifier_instance, load)
         /\ call' = <<[op |-> "GET /health", status |-> 200,
                       response |-> health_check(classifier_instance'[1])]>>
    /\ UNCHANGED <<USE_AI_MODEL, CONFIDENCE_THRESHOLD, PORT, first, threads>>

\* the caller takes the result
Return ==
    /\ call # NoCall
    /\ call' = NoCall
    /\ UNCHANGED <<USE_AI_MODEL, CONFIDENCE_THRESHOLD, PORT, classifier_instance, first,
                   threads>>

\* the observer keeps the call just made, to compare later calls on its text with it
Remember ==
    /\ call # NoCall
    /\ first = NoCall
    /\ first' = <<[text |-> call[1].text, outcome |-> call[1].outcome,
                   trace |-> call[1].trace, result |-> call[1].result, between |-> FALSE]>>
    /\ UNCHANGED <<USE_AI_MODEL, CONFIDENCE_THRESHOLD, PORT, classifier_instance, call,
                   threads>>

Next ==
    \/ \E load \in LoadOutcomes : Construct(load)
    \/ ClassifyWithEscalation(Texts)
    \/ Return

\* the service: one classifier, any number of classify_with_escalation calls
Spec == Init /\ [][Next]_vars

\* the texts of the repeated calls
RepeatTexts ==
    {Join(<<>>), Join(<<" \t">>), Join(<<"Whose", "?">>), Join(<<"Whose", " \t", "love">>),
     Join(<<"love">>), Join(<<"not working">>)}

NextRepeat ==
    \/ \E load \in LoadOutcomes : Construct(load)
    \/ ClassifyWithEscalation(RepeatTexts)
    \/ Remember
    \/ Return

\* repeated calls against a deterministic sentiment pipeline
SpecRepeat == Init /\ [][NextRepeat]_vars

\* the attributes of class Config as read from the environment, before Config()
InitEnv ==
    /\ USE_AI_MODEL \in BOOLEAN
    /\ CONFIDENCE_THRESHOLD \in EnvThresholds
    /\ PORT \in EnvPorts
    /\ classifier_instance = NoInstance
    /\ call = NoCall
    /\ first = NoCall
    /\ threads = [t \in Threads |-> NotCalled]

\* config = Config(): __init__ runs _validate
ConfigInit ==
    /\ call = NoCall
    /\ CONFIDENCE_THRESHOLD' = validate_threshold(CONFIDENCE_THRESHOLD)
    /\ PORT' = validate_port(PORT)
    /\ call' = <<[op |-> "Config",
                  env |-> [CONFIDENCE_THRESHOLD |-> CONFIDENCE_THRESHOLD, PORT |-> PORT]]>>
    /\ UNCHANGED <<USE_AI_MODEL, classifier_instance, first, threads>>

NextConfig == ConfigInit

\* loading the configuration
SpecConfig == InitEnv /\ [][NextConfig]_vars

\* the texts of the requests
RequestTexts == RepeatTexts \cup {Join(<<"?">>), Join(<<"!">>), Join(<<"I am upset">>)}

NextApi ==
    \/ \E load \in LoadOutcomes : GetClassifier(load)
    \/ PostClassify(RequestTexts)
    \/ HealthCheck
    \/ Return

\* the HTTP service and the callers of get_classifier, one request at a time
SpecApi == Init /\ [][NextApi]_vars

NextRules ==
    \/ DirectRuleClassify(RuleTexts)
    \/ Return

\* the rule-based classifier called on its own
SpecRules == Init /\ [][NextRules]_vars

NextAI ==
    \/ \E load \in LoadOutcomes : Construct(load)
    \/ DirectAIClassify(RequestTexts)
    \/ Return

\* the model classifier called on its own, whether its pipeline loaded or not
SpecAI == Init /\ [][NextAI]_vars

NextThreads ==
    \E t \in Threads :
        \/ ThreadTest(t)
        \/ \E load \in LoadOutcomes : ThreadConstruct(t, load)
        \/ ThreadAssign(t)
        \/ ThreadReturn(t)

\* the first calls of get_classifier, made by several threads at once
SpecThreads == Init /\ [][NextThreads]_vars

---------------------------------------------------------------------------
(* Properties of classify_with_escalation, checked under Spec              *)

\* a text is empty or holds white space only, read off the characters themselves
WhitespaceOnly(text) == \A i \in 1..Len(text) : IsSpace(text[i])

\* the character occurs in the text
HasChar(text, c) == \E i \in 1..Len(text) : text[i] = c

\* the classifier of the call in progress has a loaded pipeline
ModelAvailable ==
    classifier_instance # NoInstance /\ classifier_instance[1].sentiment_pipeline # None

\* the (label, confidence, reason) of a result
Triple(r) == <<r.label, r.confidence, r.reason>>

\* C1: in every result of classify_with_escalation, on every path, escalate is true
\* exactly when the confidence is strictly below CONFIDENCE_THRESHOLD; a confidence
\* equal to the threshold does not escalate.
C1_EscalateIffBelowThreshold ==
    call # NoCall =>
        /\ call[1].result.escalate = (call[1].result.confidence < CONFIDENCE_THRESHOLD)
        /\ call[1].result.confidence = CONFIDENCE_THRESHOLD => ~call[1].result.escalate

\* a result of the model path whose confidence equals the threshold, not escalated
C1_Witness ==
    /\ call # NoCall
    /\ call[1].result.method = "ai"
    /\ call[1].result.confidence = CONFIDENCE_THRESHOLD
    /\ ~call[1].result.escalate

\* C2: every result has a label among question, comment and complaint and a
\* confidence from 0 to 100, whichever path produced it.
C2_LabelAndConfidenceInRange ==
    call # NoCall =>
        /\ call[1].result.label \in INTENT_LABELS
        /\ 0 <= call[1].result.confidence
        /\ call[1].result.confidence <= 100

\* a neutral result of the pipeline at its highest score
C2_Witness ==
    /\ call # NoCall
    /\ call[1].trace.pipeline_called
    /\ call[1].trace.used_ai
    /\ call[1].outcome.label = "POSITIVE"
    /\ call[1].outcome.score = 20
    /\ ~signals[call[1].text].has_positive

\* C3: for an empty or whitespace-only text the result is exactly comment, 30, the
\* reason "empty or invalid input" (read without regard to letter case: the code
\* writes it with a capital E), not from the model; neither classifier is invoked, the
\* method is rules, and the result escalates exactly when the threshold is above 30.
C3_BlankInput ==
    (call # NoCall /\ WhitespaceOnly(call[1].text)) =>
        /\ ~call[1].result.raised
        /\ call[1].result.label = "comment"
        /\ call[1].result.confidence = 30
        /\ lower(Chars(call[1].result.reason)) = Chars("empty or invalid input")
        /\ ~call[1].trace.used_ai
        /\ ~call[1].trace.ai_called
        /\ ~call[1].trace.pipeline_called
        /\ ~call[1].trace.rules_called
        /\ call[1].result.method = "rules"
        /\ call[1].result.escalate = (CONFIDENCE_THRESHOLD > 30)

\* a whitespace-only text that is not empty, submitted while the model is enabled and
\* loaded, with the threshold at 30
C3_Witness ==
    /\ call # NoCall
    /\ Len(call[1].text) > 0
    /\ WhitespaceOnly(call[1].text)
    /\ USE_AI_MODEL
    /\ ModelAvailable
    /\ CONFIDENCE_THRESHOLD = 30
    /\ ~call[1].result.escalate

\* C4: when AIClassifier.classify raises for a text that is not blank, the exception
\* is not propagated, and the result is exactly the triple RuleBasedClassifier.classify
\* gives for the text, marked as not from the model.
C4_ModelFailureFallsBack ==
    (call # NoCall /\ call[1].trace.ai_raised) =>
        /\ ~call[1].trace.raised
        /\ ~call[1].result.raised
        /\ call[1].trace.rules_called
        /\ ~call[1].trace.used_ai
        /\ Triple(call[1].result) = Triple(rule_based_classifier[call[1].text])

\* the pipeline itself raised during the call, and the rules answered
C4_Witness ==
    /\ call # NoCall
    /\ call[1].trace.ai_raised
    /\ call[1].outcome.raises
    /\ call[1].trace.pipeline_called
    /\ call[1].result.method = "rules"
    /\ call[1].result.label = "complaint"

\* C5 as stated: with the model disabled or unavailable, for every non-empty text the
\* model classifier is never called and the result is that of the rule-based
\* classifier alone, with method rules.
C5_AsStated ==
    (call # NoCall /\ Len(call[1].text) > 0 /\ (~USE_AI_MODEL \/ ~ModelAvailable)) =>
        /\ ~call[1].trace.ai_called
        /\ call[1].result.method = "rules"
        /\ Triple(call[1].result) = Triple(rule_based_classifier[call[1].text])

\* C5: with the model disabled or unavailable, for every text that is neither empty
\* nor whitespace-only the model classifier is never called, the rule-based classifier
\* is, and the result carries its label, confidence and reason with method rules.
C5_RulesOnlyWhenModelOff ==
    (call # NoCall /\ ~WhitespaceOnly(call[1].text) /\ (~USE_AI_MODEL \/ ~ModelAvailable)) =>
        /\ ~call[1].trace.ai_called
        /\ ~call[1].trace.pipeline_called
        /\ call[1].trace.rules_called
        /\ call[1].result.method = "rules"
        /\ Triple(call[1].result) = Triple(rule_based_classifier[call[1].text])

\* a question submitted to a classifier whose model is enabled and failed to load
C5_Witness ==
    /\ call # NoCall
    /\ USE_AI_MODEL
    /\ ~ModelAvailable
    /\ HasChar(call[1].text, "?")
    /\ call[1].result.label = "question"
    /\ call[1].result.method = "rules"

\* the result came from the model path
ProducedByModel(c) == c.trace.ai_called /\ ~c.trace.ai_raised

\* C6 as stated: method is "model" if the model path produced the result and "rules"
\* otherwise.
C6_AsStated ==
    call # NoCall =>
        call[1].result.method = IF ProducedByModel(call[1]) THEN "model" ELSE "rules"

\* C6: method is "ai" if the model path produced the result and "rules" otherwise;
\* it is never any other value.
C6_MethodIsAiOrRules ==
    call # NoCall =>
        /\ call[1].result.method = IF ProducedByModel(call[1]) THEN "ai" ELSE "rules"
        /\ call[1].result.method \in {"ai", "rules"}

\* a result the sentiment pipeline produced
C6_Witness ==
    /\ call # NoCall
    /\ ProducedByModel(call[1])
    /\ call[1].trace.pipeline_called
    /\ call[1].result.method = "ai"

\* C7: for every text containing '?', when the model is enabled and available the
\* result is question with confidence exactly 85, whatever keywords the text holds,
\* and the sentiment pipeline is not consulted.
C7_QuestionMarkOnModelPath ==
    (call # NoCall /\ HasChar(call[1].text, "?") /\ USE_AI_MODEL /\ ModelAvailable) =>
        /\ call[1].result.label = "question"
        /\ call[1].result.confidence = 85
        /\ call[1].result.method = "ai"
        /\ ~call[1].trace.pipeline_called

\* a text with a '?' inside it, a complaint phrase and a positive word, on the model path
C7_Witness ==
    /\ call # NoCall
    /\ USE_AI_MODEL
    /\ ModelAvailable
    /\ HasChar(call[1].text, "?")
    /\ call[1].text[Len(call[1].text)] # "?"
    /\ signals[call[1].text].has_complaint_words
    /\ signals[call[1].text].has_positive
    /\ call[1].result.confidence = 85

---------------------------------------------------------------------------
(* Properties of RuleBasedClassifier.classify, checked under SpecRules     *)

\* C8: RuleBasedClassifier.classify is total: for every text, the empty one included,
\* it returns a label among question, comment and complaint, a confidence from 0 to
\* 100 and a reason that is not empty. (An index out of range in the scoring would stop
\* the evaluation of rule_based_classifier.)
C8_RuleBasedClassifierTotal ==
    call # NoCall =>
        /\ call[1].result.label \in INTENT_LABELS
        /\ 0 <= call[1].result.confidence
        /\ call[1].result.confidence <= 100
        /\ Len(call[1].result.reason) > 0

\* the empty string, classified by the rules
C8_Witness ==
    /\ call # NoCall
    /\ call[1].op = "RuleBasedClassifier.classify"
    /\ Len(call[1].text) = 0
    /\ call[1].result.label = "comment"

---------------------------------------------------------------------------
(* Repeated calls, checked under SpecRepeat                                *)

\* C9: with the configuration fixed and the pipeline deterministic, a call of
\* classify_with_escalation returns the record an earlier call on the same text and
\* the same classifier returned, whatever calls were made in between.
C9_Idempotent ==
    (call # NoCall /\ first # NoCall /\ call[1].text = first[1].text) =>
        call[1].result = first[1].result

\* a text classified by the pipeline, then another text, then the first text again
C9_Witness ==
    /\ call # NoCall
    /\ first # NoCall
    /\ first[1].between
    /\ call[1].text = first[1].text
    /\ first[1].trace.pipeline_called
    /\ call[1].trace.used_ai

---------------------------------------------------------------------------
(* The lifetime of a classifier, checked under Spec                        *)

LoadFailed == classifier_instance # NoInstance /\ classifier_instance[1].load # "loaded"

Unavailable ==
    classifier_instance # NoInstance
        /\ ~is_available(classifier_instance[1].sentiment_pipeline)

\* C10: a classifier whose pipeline failed to load at construction is unavailable, and
\* an unavailable classifier stays unavailable over every step: no classify call
\* loads the pipeline again.
C10_FailedLoadIsPermanent ==
    /\ [](LoadFailed => Unavailable)
    /\ [][Unavailable => Unavailable']_vars

\* a call answered by the rules, with the model enabled, after a load that raised
C10_Witness ==
    /\ LoadFailed
    /\ classifier_instance[1].load = "Exception"
    /\ USE_AI_MODEL
    /\ call # NoCall
    /\ call[1].trace.rules_called
    /\ ~call[1].trace.ai_called

---------------------------------------------------------------------------
(* What a classify call leaves alone, checked under SpecRepeat             *)

\* the step in which a call of classify_with_escalation is made
ClassifyStep == call = NoCall /\ call' # NoCall

\* C26: no classify or classify_with_escalation call changes the classifier instance
\* or the configuration; a call in which the model failed leaves is_available() true,
\* and a call made after it, with the model enabled and a text that is not blank,
\* attempts the model path again.
C26_ClassifyChangesNothing ==
    /\ [][ClassifyStep =>
            /\ classifier_instance' = classifier_instance
            /\ USE_AI_MODEL' = USE_AI_MODEL
            /\ CONFIDENCE_THRESHOLD' = CONFIDENCE_THRESHOLD
            /\ PORT' = PORT]_vars
    /\ [][(ClassifyStep /\ call'[1].trace.ai_raised) =>
            is_available(classifier_instance'[1].sentiment_pipeline)]_vars
    /\ []((/\ first # NoCall
           /\ first[1].trace.ai_raised
           /\ call # NoCall
           /\ USE_AI_MODEL
           /\ ~WhitespaceOnly(call[1].text))
          => call[1].trace.ai_called)

\* the pipeline raised in the remembered call, and a later call on another text is
\* answered by the model
C26_Witness ==
    /\ first # NoCall
    /\ first[1].trace.ai_raised
    /\ first[1].trace.rules_called
    /\ first[1].between
    /\ call # NoCall
    /\ call[1].text # first[1].text
    /\ call[1].trace.pipeline_called
    /\ call[1].trace.used_ai

---------------------------------------------------------------------------
(* AIClassifier.classify called on its own, checked under SpecAI           *)

\* AIClassifier.classify has just been called
AICalled == call # NoCall /\ call[1].op = "AIClassifier.classify"

\* C27: AIClassifier.classify raises, and returns no label, confidence or reason,
\* whenever the model is unavailable, for every text, those with '?' or a first
\* interrogative word included, and whenever the pipeline call raises.
C27_FailureIsRaised ==
    AICalled =>
        /\ ~ModelAvailable =>
               /\ call[1].result.raised
               /\ ~call[1].result.pipeline_called
        /\ (call[1].result.pipeline_called /\ call[1].outcome.raises) =>
               call[1].result.raised
        /\ call[1].result.raised =>
               /\ call[1].result.exception = "Exception"
               /\ Triple(call[1].result) = <<None, 0, None>>

\* a text with '?' given to a classifier whose pipeline did not load
C27_Witness ==
    /\ AICalled
    /\ ~ModelAvailable
    /\ HasChar(call[1].text, "?")
    /\ call[1].result.raised
    /\ call[1].result.label = None

---------------------------------------------------------------------------
(* The global classifier and the HTTP service, checked under SpecApi       *)

\* a get_classifier call has just been made
GotClassifier == call # NoCall /\ call[1].op = "get_classifier"

\* C11: in a sequential series of calls, get_classifier constructs an IntentClassifier
\* on the first call only (when the global instance is None) and returns the global
\* instance on every call, which is the first object constructed; once set, the
\* global instance is never replaced.
C11_Singleton ==
    /\ [](GotClassifier =>
            /\ classifier_instance # NoInstance
            /\ call[1].result = classifier_instance[1].id
            /\ call[1].result = 1)
    /\ [][GotClassifier' /\ ~GotClassifier =>
            (call'[1].constructed <=> classifier_instance = NoInstance)]_vars
    /\ [][classifier_instance # NoInstance =>
            /\ classifier_instance' # NoInstance
            /\ classifier_instance'[1].id = classifier_instance[1].id]_vars

\* a later call that constructs nothing and returns the first object
C11_Witness ==
    /\ GotClassifier
    /\ ~call[1].constructed
    /\ call[1].result = 1

---------------------------------------------------------------------------
(* Configuration, checked under SpecConfig                                 *)

\* Config() has run
Validated == call # NoCall /\ call[1].op = "Config"

\* C12: validation replaces a CONFIDENCE_THRESHOLD outside 0..100 by 70 and a PORT
\* outside 1..65535 by 8000 and keeps values in range unchanged, so that afterwards
\* the threshold is in 0..100 (and the port in 1..65535); it has no failing outcome.
C12_ValidationCorrects ==
    Validated =>
        /\ CONFIDENCE_THRESHOLD =
               IF call[1].env.CONFIDENCE_THRESHOLD \in 0..100
               THEN call[1].env.CONFIDENCE_THRESHOLD ELSE 70
        /\ PORT = IF call[1].env.PORT \in 1..65535 THEN call[1].env.PORT ELSE 8000
        /\ CONFIDENCE_THRESHOLD \in 0..100
        /\ PORT \in 1..65535

\* a port of 0 with a threshold of 101, both replaced
C12_Witness ==
    /\ Validated
    /\ call[1].env.PORT = 0
    /\ call[1].env.CONFIDENCE_THRESHOLD = 101
    /\ PORT = 8000
    /\ CONFIDENCE_THRESHOLD = 70

\* a POST /classify request has just been answered
Posted == call # NoCall /\ call[1].op = "POST /classify"

\* C13: a request whose text is the empty string is rejected by request validation
\* (422) and the classifier is not invoked for it; a request whose text has length 1
\* or more passes validation and is classified: it is answered 200 with the label,
\* confidence, reason and escalate flag of classify_with_escalation.
C13_RequestValidation ==
    Posted =>
        /\ Len(call[1].text) = 0 => (call[1].status = 422 /\ ~call[1].invoked)
        /\ Len(call[1].text) >= 1 =>
               /\ call[1].status = 200
               /\ call[1].invoked
               /\ call[1].response.label = call[1].result.label
               /\ call[1].response.confidence = call[1].result.confidence
               /\ call[1].response.reason = call[1].result.reason
               /\ call[1].response.escalate = call[1].result.escalate

\* the empty text rejected while no classifier has been constructed yet
C13_Witness ==
    /\ Posted
    /\ Len(call[1].text) = 0
    /\ call[1].status = 422
    /\ classifier_instance = NoInstance

\* a GET /health request has just been answered
HealthChecked == call # NoCall /\ call[1].op = "GET /health"

\* C14: /health reports ai_model_available true exactly when the model is both
\* configured (USE_AI_MODEL) and available (pipeline loaded), that is, exactly when
\* classify would attempt the model path.
C14_HealthReportsModelPath ==
    HealthChecked =>
        (call[1].response.ai_model_available
             <=> attempt_ai(USE_AI_MODEL, classifier_instance[1].sentiment_pipeline))

---------------------------------------------------------------------------
(* The scoring of the rule-based classifier, checked under SpecRules       *)

\* RuleBasedClassifier.classify has just been called
RuleCalled == call # NoCall /\ call[1].op = "RuleBasedClassifier.classify"

\* the text the scores are computed on, lower-cased and stripped once for every text
\* given to the classifier
lowered_texts == [text \in RuleTexts |-> strip(lower(text))]

Lowered(text) == lowered_texts[text]

\* the signals the complaint score counts, read off the text
ComplaintKeywords(text) == CountIn(COMPLAINT_WORDS, Lowered(text))
NegativePhrases(text) == CountIn(negative_phrases, Lowered(text))
PositiveKeywords(text) == CountIn(POSITIVE_WORDS, Lowered(text))
OpinionPatterns(text) ==
    Cardinality({k \in DOMAIN statement_patterns :
                   statement_pattern(statement_patterns[k], Lowered(text))})

\* C15: the rule-based classifier returns the category with the highest score, with
\* that score as confidence; when scores tie it returns the first category with the
\* highest score in the order question, complaint, comment.
C15_FirstMaximumWins ==
    RuleCalled =>
        LET scores == call[1].result.scores
            top == Max(scores.question, Max(scores.complaint, scores.comment))
        IN  /\ call[1].result.confidence = top
            /\ call[1].result.label =
                   IF scores.question = top THEN "question"
                   ELSE IF scores.complaint = top THEN "complaint"
                   ELSE "comment"

\* a question score equal to the comment score, above the complaint score
C15_Witness ==
    /\ RuleCalled
    /\ call[1].result.scores.question = call[1].result.scores.comment
    /\ call[1].result.scores.question > call[1].result.scores.complaint
    /\ call[1].result.label = "question"

\* the first word of the text is in QUESTION_WORDS
StartsWithQuestionWord(text) ==
    \E words \in {split(Lowered(text))} :
        Len(words) > 0 /\ InList(words[1], QUESTION_WORDS)

\* C16: for every text that contains '?' and whose first word is in QUESTION_WORDS the
\* question score is at least 70; if the text also has no complaint signal ('!',
\* complaint keyword, negative phrase, emotion pattern) and no positive keyword or
\* opinion pattern, the label is question and the confidence above 50.
C16_QuestionScenario ==
    (RuleCalled /\ HasChar(call[1].text, "?") /\ StartsWithQuestionWord(call[1].text)) =>
        /\ call[1].result.scores.question >= 70
        /\ (/\ ~HasChar(call[1].text, "!")
            /\ ComplaintKeywords(call[1].text) = 0
            /\ NegativePhrases(call[1].text) = 0
            /\ ~emotion_pattern(Lowered(call[1].text))
            /\ PositiveKeywords(call[1].text) = 0
            /\ OpinionPatterns(call[1].text) = 0)
           => (call[1].result.label = "question" /\ call[1].result.confidence > 50)

\* the scenario of the unit test
C16_Witness ==
    /\ RuleCalled
    /\ call[1].text = Chars("How do I reset my password?")
    /\ call[1].result.label = "question"
    /\ call[1].result.confidence = 80

\* C17 as stated: for a text with '!' and positive keywords, the comment score is above
\* the complaint score only if the text holds no complaint keyword.
C17_AsStated ==
    (/\ RuleCalled
     /\ HasChar(call[1].text, "!")
     /\ PositiveKeywords(call[1].text) > 0
     /\ call[1].result.scores.comment > call[1].result.scores.complaint)
    => ComplaintKeywords(call[1].text) = 0

\* C17: for a text with '!' and positive keywords, the comment score (at least 45) is
\* above the complaint score when the text holds no complaint keyword, negative phrase
\* or emotion pattern (complaint score 15), and also when it holds one complaint
\* keyword and no more (complaint score 35); the label is then not complaint.
C17_PositiveOutweighsExclamation ==
    (/\ RuleCalled
     /\ HasChar(call[1].text, "!")
     /\ PositiveKeywords(call[1].text) > 0
     /\ ComplaintKeywords(call[1].text) <= 1
     /\ NegativePhrases(call[1].text) = 0
     /\ ~emotion_pattern(Lowered(call[1].text)))
    => /\ call[1].result.scores.complaint = 15 + 20 * ComplaintKeywords(call[1].text)
       /\ call[1].result.scores.comment >= 45
       /\ call[1].result.scores.comment > call[1].result.scores.complaint
       /\ call[1].result.label # "complaint"

\* the scenario of the unit test: two positive keywords and '!', no complaint keyword
C17_Witness ==
    /\ RuleCalled
    /\ call[1].text = Chars("I really love this feature, it's fantastic!")
    /\ ComplaintKeywords(call[1].text) = 0
    /\ call[1].result.scores.complaint = 15
    /\ call[1].result.scores.comment = 60
    /\ call[1].result.label = "comment"

---------------------------------------------------------------------------
(* The three scores and the reason, checked under SpecRules                *)

\* 1 for a true condition, 0 for a false one
Indicator(condition) == IF condition THEN 1 ELSE 0

\* the entries of QUESTION_WORDS that occur in the text
QuestionWordsIn(text) == CountIn(QUESTION_WORDS, Lowered(text))

\* C21: the question score of the lower-cased, trimmed text is
\* min(100, 40*['?' in text] + 30*[first word in QUESTION_WORDS] + min(5*n, 30)),
\* n the number of entries of QUESTION_WORDS that occur in the text; it is 0 for a
\* text with none of these signals.
C21_QuestionScore ==
    RuleCalled =>
        /\ call[1].result.scores.question =
               Min(100, 40 * Indicator(HasChar(call[1].text, "?"))
                          + 30 * Indicator(StartsWithQuestionWord(call[1].text))
                          + Min(5 * QuestionWordsIn(call[1].text), 30))
        /\ (/\ ~HasChar(call[1].text, "?")
            /\ ~StartsWithQuestionWord(call[1].text)
            /\ QuestionWordsIn(call[1].text) = 0)
           => call[1].result.scores.question = 0

\* seven question words, 35 points before the cap, in a text that starts with one
C21_Witness ==
    /\ RuleCalled
    /\ QuestionWordsIn(call[1].text) = 7
    /\ StartsWithQuestionWord(call[1].text)
    /\ ~HasChar(call[1].text, "?")
    /\ call[1].result.scores.question = 60

\* C22: the complaint score is
\* min(100, min(20*k, 70) + 25*p + 15*['!' in text] + 25*[emotion pattern matches]),
\* k the number of complaint keywords and p the number of negative phrases found; the
\* phrase term has no cap of its own.
C22_ComplaintScore ==
    RuleCalled =>
        call[1].result.scores.complaint =
            Min(100, Min(20 * ComplaintKeywords(call[1].text), 70)
                       + 25 * NegativePhrases(call[1].text)
                       + 15 * Indicator(HasChar(call[1].text, "!"))
                       + 25 * Indicator(emotion_pattern(Lowered(call[1].text))))

\* two negative phrases count 50 points, below the clamp
C22_Witness ==
    /\ RuleCalled
    /\ NegativePhrases(call[1].text) = 2
    /\ ComplaintKeywords(call[1].text) = 0
    /\ call[1].result.scores.complaint = 50

\* C23: the comment score is
\* min(100, 30 + min(15*k, 50) + 10*[neither '?' nor '!' in text] + 10*m), k the number
\* of positive keywords and m the number of opinion patterns matched; it is never
\* below 30.
C23_CommentScore ==
    RuleCalled =>
        /\ call[1].result.scores.comment =
               Min(100, 30 + Min(15 * PositiveKeywords(call[1].text), 50)
                          + 10 * Indicator(~HasChar(call[1].text, "?")
                                             /\ ~HasChar(call[1].text, "!"))
                          + 10 * OpinionPatterns(call[1].text))
        /\ call[1].result.scores.comment >= 30

\* four positive keywords, 60 points before the cap
C23_Witness ==
    /\ RuleCalled
    /\ PositiveKeywords(call[1].text) = 4
    /\ OpinionPatterns(call[1].text) = 0
    /\ call[1].result.scores.comment = 90

\* the first entry of the list that occurs in the text, None when none occurs: the
\* entry with the least index among those that occur
FirstIn(list, text) ==
    CHOOSE word \in
        {IF found = {} THEN None ELSE list[CHOOSE i \in found : \A j \in found : i <= j] :
             found \in {{i \in DOMAIN list : Contains(list[i], Lowered(text))}}} : TRUE

\* C24: the reason follows from the label and the text: for question, the
\* question-mark reason iff the text contains '?', else the question-words reason; for
\* complaint, the first complaint keyword of the list that occurs in the text, or the
\* frustration reason when none occurs; for comment, the first positive keyword of the
\* list, or the declarative-statement reason when none occurs.
C24_Reason ==
    RuleCalled =>
        call[1].result.reason =
            CASE call[1].result.label = "question" ->
                     IF HasChar(call[1].text, "?")
                     THEN "Contains question mark and interrogative structure"
                     ELSE "Contains question words seeking information"
              [] call[1].result.label = "complaint" ->
                     LET word == FirstIn(COMPLAINT_WORDS, call[1].text)
                     IN  IF word # None
                         THEN "Contains negative language indicating dissatisfaction ('"
                                  \o word \o "')"
                         ELSE "Expresses frustration or problem with service"
              [] call[1].result.label = "comment" ->
                     LET word == FirstIn(POSITIVE_WORDS, call[1].text)
                     IN  IF word # None
                         THEN "Appears to be feedback or observation ('" \o word \o "')"
                         ELSE "Declarative statement providing feedback or opinion"

\* a complaint with two keywords, 'upset' before 'not working' in the list
C24_Witness ==
    /\ RuleCalled
    /\ call[1].result.label = "complaint"
    /\ ComplaintKeywords(call[1].text) = 2
    /\ Contains("not working", Lowered(call[1].text))
    /\ call[1].result.reason =
           "Contains negative language indicating dissatisfaction ('upset')"

\* the text has no signal that any of the three scores counts
NoSignal(text) ==
    /\ ~HasChar(text, "?")
    /\ ~HasChar(text, "!")
    /\ QuestionWordsIn(text) = 0
    /\ ComplaintKeywords(text) = 0
    /\ NegativePhrases(text) = 0
    /\ ~emotion_pattern(Lowered(text))
    /\ PositiveKeywords(text) = 0
    /\ OpinionPatterns(text) = 0

\* C25: for every text with no scoring signal at all, the empty string included,
\* RuleBasedClassifier.classify returns the label comment, the confidence 40 and the
\* declarative-statement reason.
C25_NoSignal ==
    (RuleCalled /\ NoSignal(call[1].text)) =>
        Triple(call[1].result) =
            <<"comment", 40, "Declarative statement providing feedback or opinion">>

\* the empty string
C25_Witness ==
    /\ RuleCalled
    /\ call[1].text = <<>>
    /\ NoSignal(call[1].text)
    /\ call[1].result.label = "comment"
    /\ call[1].result.confidence = 40

---------------------------------------------------------------------------
(* The model path of AIClassifier.classify, checked under Spec.  A score s *)
(* of the pipeline is k twentieths: 100*s is 5*k points, 80*s is 4*k       *)
(* points, s > 0.8 is k > 16 and s > 0.95 is k = 20.                       *)

\* classify_with_escalation called AIClassifier.classify with a loaded pipeline
OnModelPath == call # NoCall /\ call[1].trace.ai_called

\* the sentiment pipeline was called and returned
PipelineAnswered == OnModelPath /\ call[1].trace.pipeline_called /\ ~call[1].outcome.raises

\* C18: AIClassifier.classify calls the sentiment pipeline only when the text has no '?'
\* and its lower-cased, stripped form does not start with an interrogative word and a
\* space; a text without '?' that starts so gets (question, 80) from the model path
\* and the pipeline is not called for it.
C18_PipelineComesLast ==
    OnModelPath =>
        /\ call[1].trace.pipeline_called =>
               (~HasChar(call[1].text, "?") /\ ~signals[call[1].text].question_start)
        /\ (~HasChar(call[1].text, "?") /\ signals[call[1].text].question_start) =>
               /\ ~call[1].trace.pipeline_called
               /\ call[1].outcome = NotInvoked
               /\ call[1].trace.used_ai
               /\ call[1].result.label = "question"
               /\ call[1].result.confidence = 80

\* a text that starts with "whose" and white space and holds a positive word
C18_Witness ==
    /\ OnModelPath
    /\ ~HasChar(call[1].text, "?")
    /\ signals[call[1].text].question_start
    /\ signals[call[1].text].has_positive
    /\ call[1].result.confidence = 80

\* C19: on the model path with sentiment NEGATIVE and score s the label is complaint;
\* the confidence is min(100*s, 95) when the text holds a complaint indicator or
\* s > 0.8, and min(80*s, 75) otherwise.
C19_NegativeSentiment ==
    (PipelineAnswered /\ call[1].outcome.label = "NEGATIVE") =>
        /\ call[1].trace.used_ai
        /\ call[1].result.label = "complaint"
        /\ call[1].result.confidence =
               IF signals[call[1].text].has_complaint_words \/ call[1].outcome.score > 16
               THEN Min(5 * call[1].outcome.score, 95)
               ELSE Min(4 * call[1].outcome.score, 75)

\* a score of exactly 0.8 for a text without complaint indicator: 64 points
C19_Witness ==
    /\ PipelineAnswered
    /\ call[1].outcome.label = "NEGATIVE"
    /\ call[1].outcome.score = 16
    /\ ~signals[call[1].text].has_complaint_words
    /\ call[1].result.confidence = 64

\* C20 as stated: on the model path with a sentiment other than NEGATIVE and score s
\* the label is comment; the confidence is min(100*s, 95) when the text holds a
\* positive indicator and max(80*s, 60) otherwise.
C20_AsStated ==
    (PipelineAnswered /\ call[1].outcome.label # "NEGATIVE") =>
        /\ call[1].result.label = "comment"
        /\ call[1].result.confidence =
               IF signals[call[1].text].has_positive
               THEN Min(5 * call[1].outcome.score, 95)
               ELSE Max(4 * call[1].outcome.score, 60)

\* C20: on the model path with a sentiment other than NEGATIVE and score s the label
\* is comment; the confidence is min(100*s, 95) when the text holds a positive
\* indicator and otherwise max(0.8 * min(100*s, 95), 60), which is max(80*s, 60) up to
\* s = 0.95 and 76 above.
C20_PositiveSentiment ==
    (PipelineAnswered /\ call[1].outcome.label # "NEGATIVE") =>
        /\ call[1].trace.used_ai
        /\ call[1].result.label = "comment"
        /\ call[1].result.confidence =
               IF signals[call[1].text].has_positive
               THEN Min(5 * call[1].outcome.score, 95)
               ELSE IF call[1].outcome.score <= 19
               THEN Max(4 * call[1].outcome.score, 60)
               ELSE 76

\* a score of 1.0 for a text without positive indicator: 76 points
C20_Witness ==
    /\ PipelineAnswered
    /\ call[1].outcome.label = "NEUTRAL"
    /\ call[1].outcome.score = 20
    /\ ~signals[call[1].text].has_positive
    /\ call[1].result.confidence = 76

---------------------------------------------------------------------------
(* Bounds on the confidence that follow from the formulas, checked under   *)
(* Spec                                                                    *)

\* C28: RuleBasedClassifier.classify returns a confidence of at least 30 for every
\* text, its comment score being at least 30; so every result of the orchestrator on
\* the rules path or the empty-input path has a confidence of at least 30 and is not
\* escalated when the threshold is at most 30.
C28_RulesAtLeast30 ==
    call # NoCall =>
        /\ rule_based_classifier[call[1].text].scores.comment >= 30
        /\ rule_based_classifier[call[1].text].confidence >= 30
        /\ ~call[1].trace.used_ai =>
               /\ ~call[1].result.raised
               /\ call[1].result.method = "rules"
               /\ call[1].result.confidence >= 30
               /\ CONFIDENCE_THRESHOLD <= 30 => ~call[1].result.escalate

\* the rules answer with exactly 30 and the threshold is 30
C28_Witness ==
    /\ call # NoCall
    /\ call[1].trace.rules_called
    /\ call[1].result.confidence = 30
    /\ CONFIDENCE_THRESHOLD = 30
    /\ ~call[1].result.escalate

\* C29: on the model path, a NEGATIVE result for a text without complaint indicator
\* and a score of at most 0.8 has a confidence of 80 times the score, at most 64: the
\* cap of 75 in that branch never takes effect, and with the threshold 70 every such
\* result is escalated.
C29_WeakNegativeEscalates ==
    (/\ PipelineAnswered
     /\ call[1].outcome.label = "NEGATIVE"
     /\ ~signals[call[1].text].has_complaint_words
     /\ call[1].outcome.score <= 16)
    => /\ call[1].result.confidence = 4 * call[1].outcome.score
       /\ call[1].result.confidence <= 64
       /\ CONFIDENCE_THRESHOLD = 70 => call[1].result.escalate

\* the score 0.8 under the threshold 70: confidence 64, escalated
C29_Witness ==
    /\ PipelineAnswered
    /\ call[1].outcome.label = "NEGATIVE"
    /\ ~signals[call[1].text].has_complaint_words
    /\ call[1].outcome.score = 16
    /\ CONFIDENCE_THRESHOLD = 70
    /\ call[1].result.confidence = 64
    /\ call[1].result.escalate

---------------------------------------------------------------------------
(* get_classifier called from several threads, checked under SpecThreads   *)

\* C30: however the first calls of get_classifier from several threads interleave, at
\* most one IntentClassifier is constructed (so the pipeline is loaded at most once)
\* and every caller receives the same instance.
C30_OneInstanceForAllThreads ==
    /\ Cardinality(Constructed) <= 1
    /\ \A t, u \in Threads :
           (threads[t].at = "returned" /\ threads[u].at = "returned") =>
               threads[t].result = threads[u].result

=============================================================================
